---- MODULE Spec2Model ----
(***************************************************************************)
(* Model of the score-comparison scripts of the repository:                *)
(*   src/src/cal_kendall.py    load_scores, calculate_folders_metrics      *)
(*   src/src/variance_test.py  get_t60_data, levene_test_between_folders   *)
(*   src/src/get_siib.py, src/src/get_estoi.py  process_rir_folder,        *)
(*                             process_t60_folder, the Parallel dispatch   *)
(*                                                                         *)
(* A float that may be NaN is a sequence of at most one integer: <<v>> is  *)
(* the number v, <<>> is NaN.  A CSV cell and a file name are strings, and *)
(* float() / pd.to_numeric are operators on them.                          *)
(***************************************************************************)
EXTENDS Integers, Sequences, FiniteSets, TLC

VARIABLES folder1, folder2, t60_range, pc, scores, metrics, output_file,
          clean_files, t60_dirs, task, rir_idx, pair_idx, csv, handle, call_start,
          parallel, run

compare_vars == <<folder1, folder2, t60_range, pc, scores, metrics, output_file>>

scorer_vars ==
    <<clean_files, t60_dirs, task, rir_idx, pair_idx, csv, handle, call_start, parallel,
      run>>

vars == <<compare_vars, scorer_vars>>

(***************************************************************************)
(* Bounds of the inputs.                                                   *)
(***************************************************************************)
\* files in the folder given to load_scores alone
MaxFiles == 2
\* rows in one score file
MaxRows == 2
\* files in each of the two folders given to calculate_folders_metrics
CmpMaxFiles == 1
\* files in each of the two folders given to levene_test_between_folders
LevMaxFiles == 2
\* values of the mean_score column of one file
MaxScores == 1
\* .wav files in a folder
MaxWavs == 2
\* RIR sub-folders in a T60 folder
MaxRirs == 2
\* runs of the batch scorer against the same output folder
MaxRuns == 2
\* RIR sub-folders in all T60 folders together, when the scorer is run again
TwiceMaxRirs == 2

\* "<name>_mean_scores.csv": the part of the file name before "_mean_scores"
Names == {"1", "1.0", "2", "x"}
\* the identifier column
Rirs == {"a", "b"}
\* the text of a score cell
Cells == {"1", "2", "3", "abc"}

\* the float NaN
NaN == <<>>

(***************************************************************************)
(* float(csv_file.split("_mean_scores")[0]): "1" and "1.0" are the same    *)
(* float, "x" raises ValueError.                                           *)
(***************************************************************************)
IsFloat(name) == name \in {"1", "1.0", "2"}

FloatOf(name) == IF name = "2" THEN 2 ELSE 1

(***************************************************************************)
(* pd.to_numeric(cell, errors="coerce")                                    *)
(***************************************************************************)
ToNumeric(cell) ==
    IF cell = "1" THEN <<1>>
    ELSE IF cell = "2" THEN <<2>>
    ELSE IF cell = "3" THEN <<3>>
    ELSE NaN

SeqsUpTo(S, n) == UNION {[1..k -> S] : k \in 0..n}

CsvRows == [rir : Rirs, score : Cells]

\* a file of the folder: its name and its rows (no row: pd.read_csv raises
\* EmptyDataError)
FilesOf(maxRows) == [name : Names, content : SeqsUpTo(CsvRows, maxRows)]

\* os.listdir(folder), already filtered on the "_mean_scores.csv" suffix: names
\* are distinct, the order is the file system's
FoldersOf(maxFiles, maxRows) ==
    {f \in SeqsUpTo(FilesOf(maxRows), maxFiles) :
        \A i, j \in 1..Len(f) : i # j => f[i].name # f[j].name}

\* t60_range: None, or a tuple (lo, hi)
Ranges == {<<>>} \cup {<<lo, hi>> : lo \in {1, 2}, hi \in {1, 2}}

(***************************************************************************)
(* load_scores                                                             *)
(***************************************************************************)
\* a range test that leaves out the two ends
InRangeExclusive(t60, range) ==
    range = <<>> \/ (range[1] < t60 /\ t60 < range[2])

\* "t60_range and not (t60_range[0] <= t60 <= t60_range[1])" skips the file
InRange(t60, range) ==
    range = <<>> \/ (range[1] <= t60 /\ t60 <= range[2])

\* df["score"] = pd.to_numeric(df["score"], errors="coerce")
Coerce(rows) ==
    [i \in 1..Len(rows) |-> [rir |-> rows[i].rir, score |-> ToNumeric(rows[i].score)]]

IsNumber(r) == r.score # NaN

\* df.dropna(subset=["score"])
DropNa(rows) == SelectSeq(rows, IsNumber)

\* df["t60"] = t60; df[["t60", "rir", "score"]]
AddT60(rows, t60) ==
    [i \in 1..Len(rows) |-> [t60 |-> t60, rir |-> rows[i].rir, score |-> rows[i].score]]

\* the body of the loop for one file: the frames it appends to the list scores
\* (none when the file is skipped or when the try block raises)
FileFrame(file, range) ==
    IF ~IsFloat(file.name) THEN <<>>
    ELSE IF ~InRange(FloatOf(file.name), range) THEN <<>>
    ELSE IF file.content = <<>> THEN <<>>
    ELSE <<AddT60(DropNa(Coerce(file.content)), FloatOf(file.name))>>

\* the file's try block raises: float() on the name, or pd.read_csv on the file
Raises(file, range) ==
    \/ ~IsFloat(file.name)
    \/ InRange(FloatOf(file.name), range) /\ file.content = <<>>

\* a loop whose try block encloses it: the first failure ends the loop
RECURSIVE FramesUntilFailure(_, _)
FramesUntilFailure(folder, range) ==
    IF folder = <<>> \/ Raises(Head(folder), range) THEN <<>>
    ELSE FileFrame(Head(folder), range) \o FramesUntilFailure(Tail(folder), range)

RECURSIVE FramesAll(_, _)
FramesAll(folder, range) ==
    IF folder = <<>> THEN <<>>
    ELSE FileFrame(Head(folder), range) \o FramesAll(Tail(folder), range)

\* the list scores after "for csv_file in csv_files"
Frames(folder, range) == FramesAll(folder, range)

RECURSIVE Concat(_)
Concat(frames) ==
    IF frames = <<>> THEN <<>> ELSE Head(frames) \o Concat(Tail(frames))

\* pd.DataFrame(): a table with no column at all
NoColumns == [cols |-> FALSE, rows |-> <<>>]

\* pd.concat(scores, ignore_index=True) if scores else pd.DataFrame()
LoadScores(folder, range) ==
    LET frames == Frames(folder, range)
    IN  IF frames = <<>> THEN NoColumns
        ELSE [cols |-> TRUE, rows |-> Concat(frames)]

(***************************************************************************)
(* calculate_folders_metrics                                               *)
(***************************************************************************)
\* a merge on=["rir"] alone
SameRir(l, r) == l.rir = r.rir

\* on=["t60", "rir"]
SameKey(l, r) == l.t60 = r.t60 /\ l.rir = r.rir

\* the rows of the merge for one row l of the left table, in the right table's order
MatchesOf(l, rows2) ==
    LET Match(r) == SameKey(l, r)
        m == SelectSeq(rows2, Match)
    IN  [j \in 1..Len(m) |->
            [t60 |-> l.t60, rir |-> l.rir, score_1 |-> l.score, score_2 |-> m[j].score]]

RECURSIVE InnerJoin(_, _)
InnerJoin(rows1, rows2) ==
    IF rows1 = <<>> THEN <<>>
    ELSE MatchesOf(Head(rows1), rows2) \o InnerJoin(Tail(rows1), rows2)

\* how="left": a left row without a match is kept, with score_2 missing
RECURSIVE LeftJoin(_, _)
LeftJoin(rows1, rows2) ==
    IF rows1 = <<>> THEN <<>>
    ELSE LET l == Head(rows1)
             m == MatchesOf(l, rows2)
         IN  (IF m = <<>>
              THEN <<[t60 |-> l.t60, rir |-> l.rir, score_1 |-> l.score, score_2 |-> NaN]>>
              ELSE m) \o LeftJoin(Tail(rows1), rows2)

\* pd.merge(scores1, scores2, on=["t60", "rir"], suffixes=("_1", "_2")): how="inner"
Merge(rows1, rows2) == InnerJoin(rows1, rows2)

RECURSIVE Sum(_)
Sum(s) == IF s = <<>> THEN 0 ELSE Head(s) + Sum(Tail(s))

Min(a, b) == IF a <= b THEN a ELSE b

Values(s) == {s[i] : i \in DOMAIN s}

UndefinedStat == [nan |-> TRUE, sgn |-> 0, num |-> 0, den |-> 0]

Sign(v) == IF v > 0 THEN 1 ELSE IF v < 0 THEN 0 - 1 ELSE 0

\* pearsonr(x, y)[0] for len(x) >= 2, as sgn * sqrt(num / den); NaN for a
\* constant input
Pearson(x, y) ==
    LET n   == Len(x)
        cov == n * Sum([i \in DOMAIN x |-> x[i] * y[i]]) - Sum(x) * Sum(y)
        vx  == n * Sum([i \in DOMAIN x |-> x[i] * x[i]]) - Sum(x) * Sum(x)
        vy  == n * Sum([i \in DOMAIN y |-> y[i] * y[i]]) - Sum(y) * Sum(y)
    IN  IF vx = 0 \/ vy = 0 THEN UndefinedStat
        ELSE [nan |-> FALSE, sgn |-> Sign(cov), num |-> cov * cov, den |-> vx * vy]

\* kendalltau(x, y, variant="c")[0], as sgn * num / den:
\* 2 (con - dis) / (n^2 (m - 1) / m), m = min(len(set(x)), len(set(y)));
\* NaN when all of x or all of y is tied
KendallC(x, y) ==
    LET n    == Len(x)
        ps   == {p \in (DOMAIN x) \X (DOMAIN x) : p[1] < p[2]}
        con  == Cardinality({p \in ps : (x[p[1]] - x[p[2]]) * (y[p[1]] - y[p[2]]) > 0})
        dis  == Cardinality({p \in ps : (x[p[1]] - x[p[2]]) * (y[p[1]] - y[p[2]]) < 0})
        m    == Min(Cardinality(Values(x)), Cardinality(Values(y)))
        d    == 2 * (con - dis) * m
    IN  IF m = 1 THEN UndefinedStat
        ELSE [nan |-> FALSE, sgn |-> Sign(d), num |-> d * Sign(d), den |-> n * n * (m - 1)]

\* np.sqrt(np.mean((x - y) ** 2)), as sqrt(num / den)
Rmse(x, y) ==
    [nan |-> FALSE, sgn |-> 1,
     num |-> Sum([i \in DOMAIN x |-> (x[i] - y[i]) * (x[i] - y[i])]), den |-> Len(x)]

Failure(kind, merged) ==
    [status |-> kind, merged |-> merged,
     pearson |-> UndefinedStat, kendall |-> UndefinedStat, rmse |-> UndefinedStat]

\* pearsonr before it checked the length: a single pair is not refused
NeverTooShort(x) == FALSE

\* pearsonr(x, y): "if n < 2: raise ValueError('x and y must have length at least 2.')"
TooShort(x) == Len(x) < 2

\* lines 85-103: the statistics of the merged table (at least one row); a missing
\* score makes every statistic NaN
Statistics(merged) ==
    LET missing == \E i \in DOMAIN merged :
                       merged[i].score_1 = NaN \/ merged[i].score_2 = NaN
        x == [i \in DOMAIN merged |-> merged[i].score_1[1]]
        y == [i \in DOMAIN merged |-> merged[i].score_2[1]]
    IN  IF TooShort(merged) THEN Failure("ValueError: length at least 2", merged)
        ELSE IF missing
        THEN [status |-> "returned", merged |-> merged, pearson |-> UndefinedStat,
              kendall |-> UndefinedStat, rmse |-> UndefinedStat]
        ELSE [status |-> "returned", merged |-> merged, pearson |-> Pearson(x, y),
              kendall |-> KendallC(x, y), rmse |-> Rmse(x, y)]

\* what the call does: "KeyError" is pd.merge on a table without the key columns,
\* "ValueError: no common pairs" the raise of line 81
CalculateFoldersMetrics(f1, f2, range) ==
    LET scores1 == LoadScores(f1, range)
        scores2 == LoadScores(f2, range)
        merged  == Merge(scores1.rows, scores2.rows)
    IN  IF ~scores1.cols \/ ~scores2.cols THEN Failure("KeyError", <<>>)
        ELSE IF merged = <<>> THEN Failure("ValueError: no common pairs", merged)
        ELSE Statistics(merged)

(***************************************************************************)
(* get_t60_data, levene_test_between_folders                               *)
(***************************************************************************)
\* a file "<name>_mean_scores.csv" of the variance test: whether pd.read_csv finds
\* a column mean_score (df["mean_score"] raises KeyError without it), and the
\* cells of that column
LeveneFiles ==
    {f \in [name : Names, mean_score : BOOLEAN, cells : SeqsUpTo(Cells, MaxScores)] :
        ~f.mean_score => f.cells = <<>>}

LeveneFolders ==
    {f \in SeqsUpTo(LeveneFiles, LevMaxFiles) :
        \A i, j \in 1..Len(f) : i # j => f[i].name # f[j].name}

\* the try block of get_t60_data reaches t60_data[t60] = scores
Collected(file) == IsFloat(file.name) /\ file.mean_score

\* t60_data.keys()
T60Keys(folder) ==
    {FloatOf(folder[i].name) : i \in {j \in DOMAIN folder : Collected(folder[j])}}

\* t60_data[t60]: the scores of the last file listed with that t60
T60Data(folder, t60) ==
    LET last == CHOOSE i \in DOMAIN folder :
                    /\ Collected(folder[i]) /\ FloatOf(folder[i].name) = t60
                    /\ \A j \in DOMAIN folder :
                          (Collected(folder[j]) /\ FloatOf(folder[j].name) = t60) => j <= i
    IN  folder[last].cells

Least(S) == CHOOSE v \in S : \A w \in S : v <= w

Greatest(S) == CHOOSE v \in S : \A w \in S : w <= v

\* sorted(set)
RECURSIVE Sorted(_)
Sorted(S) == IF S = {} THEN <<>> ELSE <<Least(S)>> \o Sorted(S \ {Least(S)})

\* sorted(set(folder1_data.keys()).intersection(folder2_data.keys()))
CommonT60s(f1, f2) == Sorted(T60Keys(f1) \cap T60Keys(f2))

\* levene(scores1, scores2) raises: a cell that is no number makes the column a
\* column of strings
LeveneRaises(scores1, scores2) ==
    \E c \in Values(scores1) \cup Values(scores2) : ToNumeric(c) = NaN

\* the loop "for t60 in common_t60s": the list results
RECURSIVE Results(_, _, _)
Results(common, f1, f2) ==
    IF common = <<>> THEN <<>>
    ELSE (IF LeveneRaises(T60Data(f1, Head(common)), T60Data(f2, Head(common)))
          THEN <<>>
          ELSE <<[T60 |-> Head(common)]>>) \o Results(Tail(common), f1, f2)

\* sort_values(by="T60", ascending=False)
RECURSIVE SortDescending(_)
SortDescending(rows) ==
    IF rows = <<>> THEN <<>>
    ELSE LET top == Greatest({rows[i].T60 : i \in DOMAIN rows})
             Is_top(r) == r.T60 = top
             Not_top(r) == r.T60 # top
         IN  SelectSeq(rows, Is_top) \o SortDescending(SelectSeq(rows, Not_top))

RECURSIVE SortAscending(_)
SortAscending(rows) ==
    IF rows = <<>> THEN <<>>
    ELSE LET low == Least({rows[i].T60 : i \in DOMAIN rows})
             Is_low(r) == r.T60 = low
             Not_low(r) == r.T60 # low
         IN  SelectSeq(rows, Is_low) \o SortAscending(SelectSeq(rows, Not_low))

\* results_df.sort_values(by="T60")
SortValues(rows) == SortAscending(rows)

\* no file at the path output_file
NoFile == [exists |-> FALSE, rows |-> <<>>]

\* the call: pd.DataFrame([]) has no column T60, so sort_values raises KeyError
\* when results is empty and to_csv is not reached
LeveneTestBetweenFolders(f1, f2) ==
    LET results == Results(CommonT60s(f1, f2), f1, f2)
    IN  IF results = <<>>
        THEN [status |-> "KeyError", file |-> NoFile]
        ELSE [status |-> "saved",
              file |-> [exists |-> TRUE, rows |-> SortValues(results)]]

\* no call of calculate_folders_metrics yet
NotCalled == Failure("not called", <<>>)

(***************************************************************************)
(* The batch scorer: get_siib.py (get_estoi.py has the same structure, with *)
(* "estoi" in the output path).  A .wav file is the rank of its name in    *)
(* sorted order, a RIR sub-folder is named by its place in the listing.    *)
(***************************************************************************)
\* the sub-folders of degraded_base_folder
T60Folders == {"t1", "t2"}

Wavs == 1..MaxWavs

\* a T60 folder: the listing of its RIR sub-folders, each the set of its .wav files
T60Dirs == SeqsUpTo(SUBSET Wavs, MaxRirs)

\* one path for every T60 folder
SharedCsvPath(t60_folder) == <<"siib_scores_zero_english", "", "_siib_scores.csv">>

\* os.path.join(output_folder_path, f"{t60_folder}_siib_scores.csv")
OutputCsvPath(t60_folder) == <<"siib_scores_zero_english", t60_folder, "_siib_scores.csv">>

Paths == {OutputCsvPath(t) : t \in T60Folders}

\* sorted([f for f in os.listdir(...) if f.endswith(".wav")])
SortedFiles(S) == Sorted(S)

\* a check that is never true
NoMismatch(clean, degraded) == FALSE

\* len(clean_files) != len(degraded_files)
Mismatch(clean, degraded) == Len(clean) # Len(degraded)

\* zip(clean_files, degraded_files)
Zip(clean, degraded) ==
    [k \in 1..Min(Len(clean), Len(degraded)) |-> <<clean[k], degraded[k]>>]

\* the RIR sub-folder the task t is at
RirFolder(t) == t60_dirs[t][rir_idx[t]]

FilePairs(t) == Zip(SortedFiles(clean_files), SortedFiles(RirFolder(t)))

\* no open file
Closed == [open |-> FALSE, path |-> <<>>]

\* an output folder as an earlier run may have left it: no file at a path, or
\* a file with a row
EarlierFiles ==
    {NoFile, [exists |-> TRUE, rows |-> <<[name |-> <<1, 1>>, value |-> "score"]>>]}

\* the scorer is not run
ScorerIdle ==
    /\ clean_files = {}
    /\ t60_dirs = [t \in T60Folders |-> <<>>]
    /\ task = [t \in T60Folders |-> "done"]
    /\ rir_idx = [t \in T60Folders |-> 0]
    /\ pair_idx = [t \in T60Folders |-> 0]
    /\ csv = [p \in Paths |-> NoFile]
    /\ handle = [t \in T60Folders |-> Closed]
    /\ call_start = [t \in T60Folders |-> 0]
    /\ parallel = "finished"
    /\ run = 0

InitScorer ==
    /\ folder1 = <<>> /\ folder2 = <<>> /\ t60_range = <<>>
    /\ pc = "scorer"
    /\ scores = NoColumns /\ metrics = NotCalled /\ output_file = NoFile
    /\ clean_files \in SUBSET Wavs
    /\ t60_dirs \in [T60Folders -> T60Dirs]
    /\ task = [t \in T60Folders |-> "queued"]
    /\ rir_idx = [t \in T60Folders |-> 0]
    /\ pair_idx = [t \in T60Folders |-> 0]
    /\ csv \in [Paths -> EarlierFiles]
    /\ handle = [t \in T60Folders |-> Closed]
    /\ call_start = [t \in T60Folders |-> 0]
    /\ parallel = "running"
    /\ run = 1

\* a worker takes delayed(process_t60_folder)(t) and lists the RIR sub-folders
StartTask(t) ==
    /\ parallel = "running" /\ task[t] = "queued"
    /\ task' = [task EXCEPT ![t] = "next_rir"]
    /\ rir_idx' = [rir_idx EXCEPT ![t] = 1]
    /\ UNCHANGED <<compare_vars, run, call_start, clean_files, t60_dirs, pair_idx, csv, handle, parallel>>

\* open(output_csv_path, mode="w"): the file is created or emptied
OpenWrite(file) == [exists |-> TRUE, rows |-> <<>>]

\* open(output_csv_path, mode="a"): the file is created if there is none, its rows
\* are kept and writes go after its last row
OpenAppend(file) == [file EXCEPT !.exists = TRUE]

\* process_rir_folder: the with statement of line 29
OpenCsv(t) ==
    /\ task[t] = "next_rir" /\ rir_idx[t] <= Len(t60_dirs[t])
    /\ task' = [task EXCEPT ![t] = "opened"]
    /\ csv' = [csv EXCEPT ![OutputCsvPath(t)] = OpenAppend(@)]
    /\ handle' = [handle EXCEPT ![t] = [open |-> TRUE, path |-> OutputCsvPath(t)]]
    /\ call_start' = [call_start EXCEPT ![t] = Len(OpenAppend(csv[OutputCsvPath(t)]).rows)]
    /\ pair_idx' = [pair_idx EXCEPT ![t] = 0]
    /\ UNCHANGED <<compare_vars, run, clean_files, t60_dirs, rir_idx, parallel>>

\* lines 33-42: the listings and the count check; the raise leaves the with block
\* (the file is closed) and process_t60_folder
CheckCounts(t) ==
    /\ task[t] = "opened"
    /\ IF Mismatch(SortedFiles(clean_files), SortedFiles(RirFolder(t)))
       THEN /\ task' = [task EXCEPT ![t] = "raised"]
            /\ handle' = [handle EXCEPT ![t] = Closed]
       ELSE /\ task' = [task EXCEPT ![t] = "scoring"]
            /\ UNCHANGED handle
    /\ UNCHANGED <<compare_vars, run, call_start, clean_files, t60_dirs, rir_idx, pair_idx, csv, parallel>>

\* how the try block of one file pair ends: an exception before the row is
\* written (lines 51-85), no exception, or an exception of the print of line 89,
\* which is inside the try block after the writerow of line 88
Outcomes == {"failed", "scored", "failed_after_row"}

\* the rows one file pair leaves: the score under "<rir>/<file>" (line 88), the
\* error text under "<file>" (line 93)
RowsOf(rir, degraded_file, outcome) ==
    LET score_row == [name |-> <<rir, degraded_file>>, value |-> "score"]
        error_row == [name |-> <<degraded_file>>, value |-> "Error"]
    IN  CASE outcome = "scored" -> <<score_row>>
          [] outcome = "failed" -> <<error_row>>
          [] outcome = "failed_after_row" -> <<score_row, error_row>>

\* lines 45-94: one file pair
ScorePair(t) ==
    /\ task[t] = "scoring" /\ pair_idx[t] < Len(FilePairs(t))
    /\ LET degraded_file == FilePairs(t)[pair_idx[t] + 1][2]
       IN  \E outcome \in Outcomes :
              csv' = [csv EXCEPT ![handle[t].path].rows =
                         @ \o RowsOf(rir_idx[t], degraded_file, outcome)]
    /\ pair_idx' = [pair_idx EXCEPT ![t] = @ + 1]
    /\ UNCHANGED <<compare_vars, run, call_start, clean_files, t60_dirs, task, rir_idx, handle, parallel>>

\* the end of the with block, and the next turn of "for rir_folder in rir_folders"
CloseCsv(t) ==
    /\ task[t] = "scoring" /\ pair_idx[t] = Len(FilePairs(t))
    /\ handle' = [handle EXCEPT ![t] = Closed]
    /\ rir_idx' = [rir_idx EXCEPT ![t] = @ + 1]
    /\ task' = [task EXCEPT ![t] = "next_rir"]
    /\ UNCHANGED <<compare_vars, run, call_start, clean_files, t60_dirs, pair_idx, csv, parallel>>

\* process_t60_folder returns
FinishTask(t) ==
    /\ task[t] = "next_rir" /\ rir_idx[t] > Len(t60_dirs[t])
    /\ task' = [task EXCEPT ![t] = "done"]
    /\ UNCHANGED <<compare_vars, run, call_start, clean_files, t60_dirs, rir_idx, pair_idx, csv, handle, parallel>>

\* Parallel(...) meets the exception of a task: it stops the other workers and
\* raises in the main script
Abort ==
    /\ parallel = "running"
    /\ \E t \in T60Folders : task[t] = "raised"
    /\ parallel' = "aborted"
    /\ task' = [t \in T60Folders |->
                   IF task[t] \in {"done", "raised"} THEN task[t] ELSE "killed"]
    /\ handle' = [t \in T60Folders |-> Closed]
    /\ UNCHANGED <<compare_vars, run, call_start, clean_files, t60_dirs, rir_idx, pair_idx, csv>>

\* Parallel(...) returns and line 120 prints
Finish ==
    /\ parallel = "running"
    /\ \A t \in T60Folders : task[t] = "done"
    /\ parallel' = "finished"
    /\ UNCHANGED <<compare_vars, run, call_start, clean_files, t60_dirs, task, rir_idx, pair_idx, csv, handle>>

NextScorer ==
    \/ \E t \in T60Folders :
          \/ StartTask(t)
          \/ OpenCsv(t)
          \/ CheckCounts(t)
          \/ ScorePair(t)
          \/ CloseCsv(t)
          \/ FinishTask(t)
    \/ Abort
    \/ Finish

SpecScorer == InitScorer /\ [][NextScorer]_vars

\* the script is run again after a run has ended: os.makedirs(exist_ok=True)
\* keeps the output folder and its files, the folders are listed anew
Rerun ==
    /\ parallel \in {"finished", "aborted"} /\ run \in 1..(MaxRuns - 1)
    /\ run' = run + 1
    /\ task' = [t \in T60Folders |-> "queued"]
    /\ rir_idx' = [t \in T60Folders |-> 0]
    /\ pair_idx' = [t \in T60Folders |-> 0]
    /\ handle' = [t \in T60Folders |-> Closed]
    /\ call_start' = [t \in T60Folders |-> 0]
    /\ parallel' = "running"
    /\ UNCHANGED <<compare_vars, clean_files, t60_dirs, csv>>

\* the first of the runs against one output folder
InitTwice ==
    /\ InitScorer
    /\ Len(t60_dirs["t1"]) + Len(t60_dirs["t2"]) <= TwiceMaxRirs

NextTwice == NextScorer \/ Rerun

SpecTwice == InitTwice /\ [][NextTwice]_vars

(***************************************************************************)
(* The calls, each on inputs drawn at the start.                           *)
(***************************************************************************)
InitLoad ==
    /\ folder1 \in FoldersOf(MaxFiles, MaxRows)
    /\ folder2 = <<>>
    /\ t60_range \in Ranges
    /\ pc = "load_scores"
    /\ scores = NoColumns
    /\ metrics = NotCalled
    /\ output_file = NoFile
    /\ ScorerIdle

\* scores = load_scores(folder1, t60_range)
LoadScoresCall ==
    /\ pc = "load_scores"
    /\ scores' = LoadScores(folder1, t60_range)
    /\ pc' = "loaded"
    /\ UNCHANGED <<folder1, folder2, t60_range, metrics, output_file, scorer_vars>>

SpecLoad == InitLoad /\ [][LoadScoresCall]_vars

InitCompare ==
    /\ folder1 \in FoldersOf(CmpMaxFiles, MaxRows)
    /\ folder2 \in FoldersOf(CmpMaxFiles, MaxRows)
    /\ t60_range \in Ranges
    /\ pc = "calculate_folders_metrics"
    /\ scores = NoColumns
    /\ metrics = NotCalled
    /\ output_file = NoFile
    /\ ScorerIdle

\* metrics = calculate_folders_metrics(folder1, folder2, t60_range)
CalculateFoldersMetricsCall ==
    /\ pc = "calculate_folders_metrics"
    /\ metrics' = CalculateFoldersMetrics(folder1, folder2, t60_range)
    /\ pc' = "calculated"
    /\ UNCHANGED <<folder1, folder2, t60_range, scores, output_file, scorer_vars>>

SpecCompare == InitCompare /\ [][CalculateFoldersMetricsCall]_vars

\* calculate_folders_metrics(f, f, t60_range): one folder given twice
InitSelf ==
    /\ folder1 \in FoldersOf(MaxFiles, MaxRows)
    /\ folder2 = folder1
    /\ t60_range \in Ranges
    /\ pc = "calculate_folders_metrics"
    /\ scores = NoColumns
    /\ metrics = NotCalled
    /\ output_file = NoFile
    /\ ScorerIdle

SpecSelf == InitSelf /\ [][CalculateFoldersMetricsCall]_vars

InitLevene ==
    /\ folder1 \in LeveneFolders
    /\ folder2 \in LeveneFolders
    /\ t60_range = <<>>
    /\ pc = "levene_test_between_folders"
    /\ scores = NoColumns
    /\ metrics = NotCalled
    /\ output_file = NoFile
    /\ ScorerIdle

\* levene_test_between_folders(folder1, folder2, output_file)
LeveneTestCall ==
    /\ pc = "levene_test_between_folders"
    /\ LET out == LeveneTestBetweenFolders(folder1, folder2)
       IN  /\ pc' = out.status
           /\ output_file' = out.file
    /\ UNCHANGED <<folder1, folder2, t60_range, scores, metrics, scorer_vars>>

SpecLevene == InitLevene /\ [][LeveneTestCall]_vars

(***************************************************************************)
(* The scripts together: one of them is run.                               *)
(***************************************************************************)
Init == InitLoad \/ InitCompare \/ InitSelf \/ InitLevene \/ InitScorer

Next ==
    \/ LoadScoresCall
    \/ CalculateFoldersMetricsCall
    \/ LeveneTestCall
    \/ NextScorer
    \/ Rerun

Spec == Init /\ [][Next]_vars

(***************************************************************************)
(* Properties of load_scores (SpecLoad).                                   *)
(***************************************************************************)
Count(seq, v) == Cardinality({i \in DOMAIN seq : seq[i] = v})

\* every row a table can hold, and rows with a missing score
AnyRows == [t60 : {1, 2}, rir : Rirs, score : {ToNumeric(c) : c \in Cells}]

WellFormed(folder) ==
    \A i \in DOMAIN folder : IsFloat(folder[i].name) /\ folder[i].content # <<>>

\* file i of the folder has its t60 within the range lo <= t60 <= hi (or no range
\* is set)
Qualifies(folder, i) ==
    /\ IsFloat(folder[i].name)
    /\ \/ t60_range = <<>>
       \/ t60_range[1] <= FloatOf(folder[i].name) /\ FloatOf(folder[i].name) <= t60_range[2]

\* the places <<file, line>> of the folder that hold row r: a numeric score, in a
\* file that qualifies
PlacesOf(folder, r) ==
    {p \in (DOMAIN folder) \X (1..MaxRows) :
        /\ Qualifies(folder, p[1])
        /\ p[2] \in DOMAIN folder[p[1]].content
        /\ r.score # NaN
        /\ r.t60 = FloatOf(folder[p[1]].name)
        /\ r.rir = folder[p[1]].content[p[2]].rir
        /\ r.score = ToNumeric(folder[p[1]].content[p[2]].score)}

InputRows(folder) == Sum([i \in DOMAIN folder |-> Len(folder[i].content)])

\* C2: for a folder of well-formed files, load_scores returns exactly the rows of
\* the files whose t60 is within t60_range (all files when it is unset) minus the
\* rows whose score is not numeric, each with the t60 of its file, and never more
\* rows than the input has.
C2_LoadScoresExactRows ==
    (pc = "loaded" /\ WellFormed(folder1)) =>
        /\ \A r \in AnyRows : Count(scores.rows, r) = Cardinality(PlacesOf(folder1, r))
        /\ Len(scores.rows) <= InputRows(folder1)

\* a range that keeps one file and skips the other, and a kept file with a numeric
\* and a non-numeric score
C2_Witness ==
    /\ pc = "loaded" /\ WellFormed(folder1) /\ Len(folder1) = 2
    /\ t60_range # <<>>
    /\ Qualifies(folder1, 1) /\ ~Qualifies(folder1, 2)
    /\ Len(folder1[1].content) = 2
    /\ ToNumeric(folder1[1].content[1].score) = NaN
    /\ Len(scores.rows) = 1

FileFails(file) == ~IsFloat(file.name) \/ file.content = <<>>

RemoveAt(seq, i) == SubSeq(seq, 1, i - 1) \o SubSeq(seq, i + 1, Len(seq))

\* C3: a file whose name is no float or whose content cannot be read is skipped
\* and the load goes on: the result is the one of the folder without that file,
\* wherever the file stands in the listing, and holds every numeric row of every
\* other file that qualifies.
C3_FailingFileSkipped ==
    pc = "loaded" =>
        /\ \A i \in DOMAIN folder1 :
              FileFails(folder1[i]) =>
                  scores = LoadScores(RemoveAt(folder1, i), t60_range)
        /\ \A r \in AnyRows : Count(scores.rows, r) >= Cardinality(PlacesOf(folder1, r))

\* the failing file is listed first and the file after it is loaded
C3_Witness ==
    /\ pc = "loaded" /\ Len(folder1) = 2
    /\ ~IsFloat(folder1[1].name)
    /\ Qualifies(folder1, 2)
    /\ Len(scores.rows) = 2

(***************************************************************************)
(* Properties of calculate_folders_metrics (SpecCompare, SpecSelf).        *)
(***************************************************************************)
Table1 == LoadScores(folder1, t60_range).rows

Table2 == LoadScores(folder2, t60_range).rows

\* the pairs <<i, j>> of a row of folder1's table and a row of folder2's table
\* with the same (t60, identifier) key
KeyPairs ==
    {p \in (DOMAIN Table1) \X (DOMAIN Table2) :
        /\ Table1[p[1]].t60 = Table2[p[2]].t60
        /\ Table1[p[1]].rir = Table2[p[2]].rir}

\* C1: when the two loaded tables share no (t60, identifier) key, also when a
\* table is empty because no file qualifies, the call fails with the dedicated
\* error "No common T60 and RIR pairs found ...".
C1_NoCommonKeyRaisesEmptyJoin ==
    (pc = "calculated" /\ KeyPairs = {}) =>
        metrics.status = "ValueError: no common pairs"

\* C4: every pair fed to the statistics comes from one row of folder1's table and
\* one row of folder2's table with the same (t60, identifier) key, there is one
\* pair per such couple of rows, and no pair has a missing member.
C4_PairsShareKey ==
    pc = "calculated" =>
        /\ \A i \in DOMAIN metrics.merged :
              LET m == metrics.merged[i]
              IN  /\ m.score_1 # NaN /\ m.score_2 # NaN
                  /\ \E p \in KeyPairs :
                        /\ Table1[p[1]].t60 = m.t60 /\ Table1[p[1]].rir = m.rir
                        /\ Table1[p[1]].score = m.score_1
                        /\ Table2[p[2]].score = m.score_2
        /\ Len(metrics.merged) = Cardinality(KeyPairs)

\* statistics are returned over two pairs while a row of folder1 has no partner
C4_Witness ==
    /\ pc = "calculated" /\ metrics.status = "returned"
    /\ Len(metrics.merged) = 2
    /\ \E i \in DOMAIN Table1 : \A p \in KeyPairs : p[1] # i

One == [nan |-> FALSE, sgn |-> 1, num |-> 1, den |-> 1]

\* the value of a statistic is exactly v (both as sgn * num / den, den > 0)
Is(stat, v) ==
    /\ ~stat.nan /\ ~v.nan
    /\ stat.sgn = v.sgn
    /\ stat.num * v.den = v.num * stat.den

Keys(rows) == {<<rows[i].t60, rows[i].rir>> : i \in DOMAIN rows}

NoDuplicateKey(rows) == Cardinality(Keys(rows)) = Len(rows)

Scores(rows) == {rows[i].score : i \in DOMAIN rows}

\* C5 as stated: a folder compared with itself gives Pearson = 1, Kendall = 1 and
\* RMSE = 0 whenever it loads to at least two rows, every pair having score_1 =
\* score_2, also with duplicate keys or tied scores.
C5_SelfCompareAsStated ==
    (pc = "calculated" /\ folder1 = folder2 /\ Len(Table1) >= 2) =>
        /\ metrics.status = "returned"
        /\ \A i \in DOMAIN metrics.merged :
              metrics.merged[i].score_1 = metrics.merged[i].score_2
        /\ metrics.rmse.num = 0
        /\ Is(metrics.pearson, One)
        /\ Is(metrics.kendall, One)

\* C5 amended: a folder compared with itself that loads to at least two rows
\* with no duplicate (t60, identifier) key gives pairs with score_1 = score_2 and
\* RMSE = 0; Pearson is 1 when the scores are not all equal, and Kendall is 1
\* when the scores are pairwise distinct.
C5_SelfCompare ==
    (pc = "calculated" /\ folder1 = folder2 /\ Len(Table1) >= 2
        /\ NoDuplicateKey(Table1)) =>
        /\ metrics.status = "returned"
        /\ Len(metrics.merged) = Len(Table1)
        /\ \A i \in DOMAIN metrics.merged :
              metrics.merged[i].score_1 = metrics.merged[i].score_2
        /\ ~metrics.rmse.nan /\ metrics.rmse.num = 0
        /\ Cardinality(Scores(Table1)) > 1 => Is(metrics.pearson, One)
        /\ Cardinality(Scores(Table1)) = Len(Table1) => Is(metrics.kendall, One)

\* three rows with three keys and three scores, compared with themselves
C5_Witness ==
    /\ pc = "calculated" /\ folder1 = folder2
    /\ Len(Table1) = 3 /\ NoDuplicateKey(Table1)
    /\ Cardinality(Scores(Table1)) = 3
    /\ Is(metrics.kendall, One) /\ metrics.rmse.num = 0

\* the call with the two folders swapped
Swapped == CalculateFoldersMetrics(folder2, folder1, t60_range)

PairsOf(merged) ==
    [i \in DOMAIN merged |-> <<merged[i].score_1, merged[i].score_2>>]

SameValue(s, t) ==
    \/ s.nan /\ t.nan
    \/ Is(s, t)

\* C6: swapping the two folders gives the same pairs with their members swapped
\* (as a multiset, with the same count), the same RMSE, Pearson and Kendall, and a
\* failure exactly when the unswapped call fails.
C6_SwapSymmetric ==
    pc = "calculated" =>
        /\ Swapped.status = metrics.status
        /\ Len(Swapped.merged) = Len(metrics.merged)
        /\ \A a, b \in {ToNumeric(c) : c \in Cells} :
              Count(PairsOf(Swapped.merged), <<b, a>>)
                  = Count(PairsOf(metrics.merged), <<a, b>>)
        /\ SameValue(Swapped.rmse, metrics.rmse)
        /\ SameValue(Swapped.pearson, metrics.pearson)
        /\ SameValue(Swapped.kendall, metrics.kendall)

\* two different folders with a non-zero RMSE, and a row without a partner
C6_Witness ==
    /\ pc = "calculated" /\ metrics.status = "returned"
    /\ folder1 # folder2
    /\ metrics.rmse.num > 0
    /\ Len(Table1) > Len(Table2)
    /\ \E i \in DOMAIN metrics.merged :
          metrics.merged[i].score_1 # metrics.merged[i].score_2

\* C7: with exactly one joined pair the call fails for lack of data instead of
\* returning a summary; a summary is returned only for two pairs or more.
C7_SinglePairFails ==
    pc = "calculated" =>
        /\ (Table1 # <<>> /\ Table2 # <<>> /\ Cardinality(KeyPairs) = 1) =>
              metrics.status = "ValueError: length at least 2"
        /\ metrics.status = "returned" => Cardinality(KeyPairs) >= 2

\* one joined pair, and a row of folder1 left without a partner
C7_Witness ==
    /\ pc = "calculated"
    /\ Cardinality(KeyPairs) = 1
    /\ Len(Table1) = 2 /\ Len(Table2) = 1
    /\ metrics.status = "ValueError: length at least 2"

(***************************************************************************)
(* Properties of levene_test_between_folders (SpecLevene).                 *)
(***************************************************************************)
\* the T60s a folder holds scores for: the files with a float name and a column
\* mean_score
PresentT60s(folder) ==
    {t \in {1, 2} : \E i \in DOMAIN folder :
        /\ IsFloat(folder[i].name) /\ FloatOf(folder[i].name) = t
        /\ folder[i].mean_score}

\* C8: the T60s of the written table are T60s present in both folders, and the
\* rows are in strictly ascending T60 order (so each T60 appears once).
C8_WrittenT60sCommonAscending ==
    output_file.exists =>
        /\ \A i \in DOMAIN output_file.rows :
              output_file.rows[i].T60 \in PresentT60s(folder1) \cap PresentT60s(folder2)
        /\ \A i, j \in DOMAIN output_file.rows :
              i < j => output_file.rows[i].T60 < output_file.rows[j].T60

\* two rows written from a folder that lists the larger T60 first
C8_Witness ==
    /\ output_file.exists
    /\ Len(output_file.rows) = 2
    /\ Len(folder1) = 2 /\ folder1[1].name = "2"

\* C9: the call runs to completion and writes the results file, which holds
\* exactly the common T60s whose test succeeded: no row when the test fails for
\* every common T60 or when there is no common T60.
C9_AlwaysWritesResults ==
    pc # "levene_test_between_folders" =>
        /\ pc = "saved"
        /\ output_file.exists
        /\ {output_file.rows[i].T60 : i \in DOMAIN output_file.rows}
              = {t \in PresentT60s(folder1) \cap PresentT60s(folder2) :
                    ~LeveneRaises(T60Data(folder1, t), T60Data(folder2, t))}

(***************************************************************************)
(* Properties of the batch scorer (SpecScorer).                            *)
(***************************************************************************)
\* the task t is inside a call of process_rir_folder, or left it by the raise
InCall(t) == task[t] \in {"opened", "scoring", "raised"}

\* C10: when the numbers of clean and of degraded .wav files differ, the call of
\* process_rir_folder raises before any scoring: it goes from the open to the
\* raise, no file pair is read or scored and the output CSV holds the rows it
\* held when the call opened it.
C10_MismatchRaisesBeforeScoring ==
    \A t \in T60Folders :
        (InCall(t) /\ Cardinality(clean_files) # Cardinality(RirFolder(t))) =>
            /\ task[t] \in {"opened", "raised"}
            /\ pair_idx[t] = 0
            /\ Len(csv[OutputCsvPath(t)].rows) = call_start[t]

\* the raise in the second RIR sub-folder, which holds files, after rows were
\* written for the first
C10_Witness ==
    \E t \in T60Folders :
        /\ task[t] = "raised" /\ rir_idx[t] = 2
        /\ RirFolder(t) # {} /\ clean_files # {}
        /\ call_start[t] >= 1
        /\ Len(csv[OutputCsvPath(t)].rows) = call_start[t]

\* the rows of the file of t written since the running call opened it
RowsOfCall(t) ==
    LET rows == csv[OutputCsvPath(t)].rows
    IN  [k \in 1..(Len(rows) - call_start[t]) |-> rows[call_start[t] + k]]

\* the loop over the file pairs of the running call is at its end
PairsDone(t) == task[t] = "scoring" /\ pair_idx[t] = Len(FilePairs(t))

\* C11: when the loop of a call of process_rir_folder with matching counts is at
\* its end, the call has appended exactly one row per file pair, in the sorted
\* order of the degraded file names, each row holding the score of its pair or
\* an error text in place of it.
C11_OneRowPerPair ==
    \A t \in T60Folders :
        PairsDone(t) =>
            LET files == Sorted(RirFolder(t))
            IN  /\ Len(RowsOfCall(t)) = Len(files)
                /\ \A k \in 1..Len(files) :
                      \/ RowsOfCall(t)[k] = [name |-> <<rir_idx[t], files[k]>>, value |-> "score"]
                      \/ RowsOfCall(t)[k] = [name |-> <<files[k]>>, value |-> "Error"]

\* the tasks that hold the file at path p open in the state after the step
HoldersAfter(p) == {t \in T60Folders : handle'[t].open /\ handle'[t].path = p}

\* the step is a step of the worker of t alone: no other worker's place, handle
\* or position changes, and no file but the file of t
StepOf(t) ==
    /\ \A u \in T60Folders \ {t} :
          /\ task'[u] = task[u] /\ handle'[u] = handle[u]
          /\ rir_idx'[u] = rir_idx[u] /\ pair_idx'[u] = pair_idx[u]
          /\ call_start'[u] = call_start[u]
    /\ \A p \in Paths \ {OutputCsvPath(t)} : csv'[p] = csv[p]

\* C12: in every step of a run no output CSV is held open by two workers, a
\* worker holds only the file "<t60_folder>_siib_scores.csv" of its own T60
\* folder, the paths of distinct T60 folders differ, a file changes only while
\* the worker of its T60 folder holds it open, and every step of a worker
\* changes the state of that worker and its file only.
C12_OneWriterPerCsv ==
    [][/\ \A p \in Paths : Cardinality(HoldersAfter(p)) <= 1
       /\ \A t \in T60Folders : handle'[t].open => handle'[t].path = OutputCsvPath(t)
       /\ \A t, u \in T60Folders : t # u => OutputCsvPath(t) # OutputCsvPath(u)
       /\ \A p \in Paths : csv'[p] # csv[p] =>
              \E t \in T60Folders : HoldersAfter(p) = {t} /\ p = OutputCsvPath(t)
       /\ parallel' = parallel => \E t \in T60Folders : StepOf(t)]_vars

\* the two workers hold their files open at once, each after a row it wrote
C12_Witness ==
    \A t \in T60Folders :
        /\ handle[t] = [open |-> TRUE, path |-> OutputCsvPath(t)]
        /\ task[t] = "scoring" /\ pair_idx[t] >= 1

\* a RIR sub-folder of t holds another number of .wav files than the clean folder
HasMismatch(t) ==
    \E i \in 1..Len(t60_dirs[t]) : Cardinality(t60_dirs[t][i]) # Cardinality(clean_files)

\* the file of t holds a row for every file pair of every RIR sub-folder of t
AllPairsWritten(t) ==
    \A i \in 1..Len(t60_dirs[t]) : \A f \in t60_dirs[t][i] :
        \E k \in 1..Len(csv[OutputCsvPath(t)].rows) :
            csv[OutputCsvPath(t)].rows[k].name \in {<<i, f>>, <<f>>}

\* C13: when the run has ended on the raise of a worker, only the raising tasks
\* were aborted: every other T60 folder's worker has run to completion and has
\* written a row for every file pair of its RIR sub-folders.
C13_OthersRunToCompletion ==
    parallel = "aborted" =>
        \A t \in T60Folders :
            task[t] # "raised" => (task[t] = "done" /\ AllPairsWritten(t))

(***************************************************************************)
(* Properties of the batch scorer run twice (SpecTwice).                   *)
(***************************************************************************)
\* the file pairs of one RIR sub-folder, each with the place of the sub-folder
RECURSIVE PairsOfCall(_, _)
PairsOfCall(i, files) ==
    IF files = <<>> THEN <<>> ELSE <<<<i, Head(files)>>>> \o PairsOfCall(i, Tail(files))

\* the file pairs of the RIR sub-folders i, i + 1, ... of t, in the order in
\* which a run of t that raises nowhere meets them
RECURSIVE PairsOfRun(_, _)
PairsOfRun(t, i) ==
    IF i > Len(t60_dirs[t]) THEN <<>>
    ELSE PairsOfCall(i, Sorted(t60_dirs[t][i])) \o PairsOfRun(t, i + 1)

\* the places in rows at which the rows of the pairs, written from the place
\* pos on with one of the outcomes each, can end
RECURSIVE Ends(_, _, _, _)
Ends(rows, pos, pairs, outcomes) ==
    IF pairs = <<>> THEN {pos}
    ELSE UNION {Ends(rows, pos + Len(r), Tail(pairs), outcomes) :
                  r \in {x \in {RowsOf(Head(pairs)[1], Head(pairs)[2], o) : o \in outcomes} :
                           /\ pos + Len(x) <= Len(rows)
                           /\ SubSeq(rows, pos + 1, pos + Len(x)) = x}}

\* the file of t holds the rows of an earlier file, then the rows of every file
\* pair of t as a run writes them, then the rows of every file pair once more
HoldsTwice(t, outcomes) ==
    LET rows == csv[OutputCsvPath(t)].rows
    IN  \E f \in EarlierFiles :
           /\ Len(f.rows) <= Len(rows)
           /\ SubSeq(rows, 1, Len(f.rows)) = f.rows
           /\ \E m \in Ends(rows, Len(f.rows), PairsOfRun(t, 1), outcomes) :
                  Len(rows) \in Ends(rows, m, PairsOfRun(t, 1), outcomes)

\* the file at p keeps its rows, in their places, in the step
KeepsRows(p) ==
    /\ csv[p].exists => csv'[p].exists
    /\ Len(csv[p].rows) <= Len(csv'[p].rows)
    /\ SubSeq(csv'[p].rows, 1, Len(csv[p].rows)) = csv[p].rows

\* the second run has ended with every task returned (then so has the first: the
\* folders are the same and a raise would be met again)
BothRunsFinished == run = MaxRuns /\ parallel = "finished"

\* when both runs have finished, every file holds every file pair's rows twice,
\* a pair's rows being its score, its error text, or its score followed by an
\* error text
FinishedRunsHoldTwice == BothRunsFinished => \A t \in T60Folders : HoldsTwice(t, Outcomes)

====
